---- MODULE Spec2Model ----
(***************************************************************************)
(* Model of backup_github_repos.py: GithubBackup.backup_repositories and   *)
(* the methods it calls.  One run of the script is one behaviour.  The     *)
(* external collaborators (the GitHub API, the git subprocesses, the       *)
(* operator at the prompt, the filesystem before the run) are inputs, drawn*)
(* from small sets.  Strings the code inspects (the confirmation, the URLs)*)
(* are sequences of one-character strings.                                 *)
(***************************************************************************)
EXTENDS Integers, Sequences, FiniteSets, TLC

VARIABLES
    pc,                  \* position of the single thread of control
    rate_limit_seconds,  \* self.rate_limit_seconds
    fs,                  \* the directories that exist under the working directory
    fs0,                 \* fs as it was when the run started (history)
    remote,              \* the repositories in the order the API returned them
    repos,               \* local `repos` of backup_repositories
    printed,             \* what print() and input() wrote to stdout, in order
    confirm,             \* local `confirm` of backup_repositories
    i,                   \* position of the for loop in repos (1-based)
    calls,               \* the subprocess.run invocations, in order
    logs,                \* the logging records, in order
    mkdirs,              \* the os.makedirs invocations, in order
    sleeps,              \* the time.sleep invocations, in order
    exitCode,            \* exit status of the process, -1 while it runs
    listing,             \* how the listing request ended (history)
    syncfs               \* fs as each clone_or_update_repository call found it (history)

vars == << pc, rate_limit_seconds, fs, fs0, remote, repos, printed, confirm, i,
           calls, logs, mkdirs, sleeps, exitCode, listing, syncfs >>

(***************************************************************************)
(* Bounds of the model.                                                    *)
(***************************************************************************)
MaxRepos == 2        \* longest listing the API returns
MaxRate == 2         \* largest rate_limit_seconds
MaxPreexisting == 1  \* most clones already on disk when the run starts

(***************************************************************************)
(* Strings as sequences of characters.                                     *)
(***************************************************************************)
UpperChars == << "A", "B", "C", "D", "E", "F", "G", "H", "I", "J", "K", "L", "M",
                 "N", "O", "P", "Q", "R", "S", "T", "U", "V", "W", "X", "Y", "Z" >>

LowerChars == << "a", "b", "c", "d", "e", "f", "g", "h", "i", "j", "k", "l", "m",
                 "n", "o", "p", "q", "r", "s", "t", "u", "v", "w", "x", "y", "z" >>

\* str.lower() on one character
LowerChar(c) ==
    IF \E k \in 1..Len(UpperChars) : UpperChars[k] = c
    THEN LowerChars[CHOOSE k \in 1..Len(UpperChars) : UpperChars[k] = c]
    ELSE c

\* str.lower()
Lower(s) == [k \in 1..Len(s) |-> LowerChar(s[k])]

\* `sub in s` for strings
Contains(s, sub) ==
    \E k \in 0..(Len(s) - Len(sub)) :
        \A j \in 1..Len(sub) : s[k + j] = sub[j]

YesStr == << "y", "e", "s" >>

SshMarker == << "s", "s", "h", ":", "/", "/" >>

(***************************************************************************)
(* The repositories the authenticated user can see on the remote service.  *)
(* Repositories 1 and 3 have the same name and visibility (the user's own  *)
(* "alpha" and an organisation's "alpha") and the same updated_at.         *)
(***************************************************************************)
ScpAlpha == << "g", "i", "t", "@", "h", ":", "u", "/", "a" >>
SshAlpha == << "s", "s", "h", ":", "/", "/", "h", "/", "o", "/", "a" >>
ScpBeta == << "g", "i", "t", "@", "h", ":", "u", "/", "b" >>
SshBeta == << "s", "s", "h", ":", "/", "/", "h", "/", "u", "/", "b" >>
HttpsAlphaU == << "h", "t", "t", "p", "s", ":", "/", "/", "h", "/", "u", "/", "a" >>
HttpsAlphaO == << "h", "t", "t", "p", "s", ":", "/", "/", "h", "/", "o", "/", "a" >>
HttpsBetaU == << "h", "t", "t", "p", "s", ":", "/", "/", "h", "/", "u", "/", "b" >>
HttpsBetaO == << "h", "t", "t", "p", "s", ":", "/", "/", "h", "/", "o", "/", "b" >>

Repo(id, name, private, updated_at, ssh_url, clone_url) ==
    [ id |-> id, name |-> name, private |-> private, updated_at |-> updated_at,
      ssh_url |-> ssh_url, clone_url |-> clone_url ]

RemoteRepos ==
    { Repo(1, "alpha", TRUE, 2, ScpAlpha, HttpsAlphaU),
      Repo(2, "beta", FALSE, 1, SshBeta, HttpsBetaU),
      Repo(3, "alpha", TRUE, 2, SshAlpha, HttpsAlphaO),
      Repo(4, "beta", TRUE, 3, ScpBeta, HttpsBetaO) }

\* the listings the API can return: repositories without repetition, any order
RECURSIVE SeqsOver(_, _)
SeqsOver(S, n) ==
    IF n = 0 THEN { << >> }
    ELSE LET shorter == SeqsOver(S, n - 1)
         IN  shorter \cup
             { Append(s, r) : s \in { t \in shorter : Len(t) = n - 1 }, r \in S }

RemoteLists ==
    { s \in SeqsOver(RemoteRepos, MaxRepos) :
        \A a, b \in 1..Len(s) : a # b => s[a].id # s[b].id }

\* what the operator can type at the prompt
ConfirmInputs ==
    { << "y", "e", "s" >>, << "Y", "E", "S" >>, << "Y", "e", "s" >>,
      << "n", "o" >>, << "N", "o", " ", "t", "h", "a", "n", "k", "s" >>,
      << >>, << "y" >>, << "y", "e", "s", " " >> }

RateValues == (-1)..MaxRate

\* outcomes of subprocess.run(..., check=True): exit status 0, a non-zero exit
\* status (CalledProcessError), or the process cannot be started (OSError)
RunOutcomes == { "zero", "nonzero", "oserror" }

\* outcomes of self.github.get_user().get_repos() and the iteration over it
ListOutcomes == { "ok", "network", "api" }

(***************************************************************************)
(* Paths: a path is the sequence of its components.                        *)
(***************************************************************************)
\* os.path.join(backup_dir, repo_name)
PathJoin(backup_dir, repo_name) == << backup_dir, repo_name >>

\* the two category directories exchanged
BackupDirSwapped(repo) == IF repo.private = FALSE THEN "private_repos" ELSE "public_repos"

\* backup_repositories: "public_repos" if repo.private is False else "private_repos"
BackupDir(repo) == IF repo.private = FALSE THEN "public_repos" ELSE "private_repos"

\* clone_or_update_repository: target_dir
TargetDir(repo) == PathJoin(BackupDir(repo), repo.name)

\* the SSH URL taken whatever it looks like
RepoUrlAlwaysSsh(repo) == repo.ssh_url

\* clone_or_update_repository: repo_url
RepoUrl(repo) == IF Contains(repo.ssh_url, SshMarker) THEN repo.ssh_url ELSE repo.clone_url

\* os.path.exists(backup_dir) in place of os.path.exists(target_dir)
PathExistsBackupDir(files, path) == << path[1] >> \in files

\* the existence check lost: every repository is cloned
PathExistsNever(files, path) == FALSE

\* os.path.exists(target_dir)
PathExists(files, path) == path \in files

\* the directories a run can find on disk when it starts
InitialFilesystems ==
    { UNION { { << t[1] >>, t } : t \in T } :
        T \in { U \in SUBSET { TargetDir(r) : r \in RemoteRepos } :
                  Cardinality(U) <= MaxPreexisting } }

(***************************************************************************)
(* sorted(repos, key=lambda r: r.updated_at, reverse=True).  list.sort     *)
(* with reverse=True reverses the list, sorts it stably in ascending order *)
(* and reverses the result, which keeps equal keys in their input order.   *)
(***************************************************************************)
Reverse(s) == [k \in 1..Len(s) |-> s[Len(s) + 1 - k]]

\* insert x into the ascending sequence s after every element with key <= x's
InsertAsc(s, x) ==
    LET n == Cardinality({ k \in 1..Len(s) : s[k].updated_at <= x.updated_at })
    IN  SubSeq(s, 1, n) \o << x >> \o SubSeq(s, n + 1, Len(s))

RECURSIVE StableSortAsc(_)
StableSortAsc(s) ==
    IF s = << >> THEN << >>
    ELSE InsertAsc(StableSortAsc(SubSeq(s, 1, Len(s) - 1)), s[Len(s)])

\* sort ascending and reverse, without the first reversal: equal keys swap
SortedByReversingAscending(s) == Reverse(StableSortAsc(s))

SortedByUpdatedDesc(s) == Reverse(StableSortAsc(Reverse(s)))

(***************************************************************************)
(* Records of the effects of the run.                                      *)
(***************************************************************************)
Line(kind, repo_type, name, updated_at) ==
    [ kind |-> kind, repo_type |-> repo_type, name |-> name, updated_at |-> updated_at ]

\* display_repositories: one line per repository
RepoLine(repo) ==
    Line("repo", IF repo.private THEN "Private" ELSE "Public", repo.name, repo.updated_at)

\* display_repositories: everything it prints
DisplayLines(rs) ==
    << Line("Repositories:", "", "", 0) >> \o [k \in 1..Len(rs) |-> RepoLine(rs[k])]

PromptLine == Line("Do you want to backup these repositories? (yes/no) ", "", "", 0)

CanceledLine == Line("Backup canceled.", "", "", 0)

Call(op, dir, url, pos, res) ==
    [ op |-> op, dir |-> dir, url |-> url, pos |-> pos, res |-> res ]

Log(level, msg, pos) == [ level |-> level, msg |-> msg, pos |-> pos ]

\* the run goes on unless the answer is "no"
ConfirmedUnlessNo(c) == Lower(c) # << "n", "o" >>

\* the answer compared without lower()
ConfirmedCaseSensitive(c) == c = YesStr

\* backup_repositories: confirm.lower() != "yes" is false
Confirmed(c) == Lower(c) = YesStr

\* the delay is taken only for rates above one second
ShouldSleepAboveOne(rate) == rate > 1

\* backup_repositories: self.rate_limit_seconds > 0
ShouldSleep(rate) == rate > 0

\* the loop walks the listing from its end
CurReversed == repos[Len(repos) + 1 - i]

\* the repository the loop is at
Cur == repos[i]

(***************************************************************************)
(* The command line: sys.argv is the script name, then the token, then the *)
(* rate limit as text.                                                     *)
(***************************************************************************)
Digits == << "0", "1", "2", "3", "4", "5", "6", "7", "8", "9" >>

IsDigit(c) == \E k \in 1..Len(Digits) : Digits[k] = c

DigitValue(c) == (CHOOSE k \in 1..Len(Digits) : Digits[k] = c) - 1

\* the text of an integer, as the operator types it
RECURSIVE NatToStr(_)
NatToStr(n) ==
    IF n < 10 THEN << Digits[n + 1] >>
    ELSE NatToStr(n \div 10) \o << Digits[(n % 10) + 1] >>

IntToStr(n) == IF n < 0 THEN << "-" >> \o NatToStr(-n) ELSE NatToStr(n)

\* the characters int() skips around the literal: the ASCII whitespace and
\* the spaces beyond ASCII, but not the separators U+001C to U+001F; a
\* character that cannot be written in a string is named by its code point
Whitespace ==
    { " ", "\t", "\n", "\r", "\f",
      "U+000B", "U+0085", "U+00A0", "U+1680",
      "U+2000", "U+2001", "U+2002", "U+2003", "U+2004", "U+2005", "U+2006", "U+2007",
      "U+2008", "U+2009", "U+200A", "U+2028", "U+2029", "U+202F", "U+205F", "U+3000" }

\* int() ignores whitespace around the literal
RECURSIVE Strip(_)
Strip(s) ==
    IF s = << >> THEN s
    ELSE IF s[1] \in Whitespace THEN Strip(Tail(s))
    ELSE IF s[Len(s)] \in Whitespace THEN Strip(SubSeq(s, 1, Len(s) - 1))
    ELSE s

\* the digits of a literal, without its sign
Unsigned(s) == IF Strip(s) # << >> /\ Strip(s)[1] \in { "-", "+" } THEN Tail(Strip(s)) ELSE Strip(s)

\* the longest literal int() converts, counted in digits
MaxStrDigits == 4300

\* int(s) does not raise ValueError: decimal digits, single underscores
\* between them, an optional sign, at most MaxStrDigits digits (the digits
\* are the ASCII ones; the decimal digits of other scripts are not among
\* the inputs)
IsIntLiteral(s) ==
    LET b == Unsigned(s) IN
    /\ b # << >>
    /\ Cardinality({ k \in 1..Len(b) : IsDigit(b[k]) }) <= MaxStrDigits
    /\ IsDigit(b[1]) /\ IsDigit(b[Len(b)])
    /\ \A k \in 2..(Len(b) - 1) :
           IsDigit(b[k]) \/ (b[k] = "_" /\ IsDigit(b[k - 1]) /\ IsDigit(b[k + 1]))

\* the value of a run of digits; leading zeros add nothing
RECURSIVE DigitsValue(_)
DigitsValue(s) ==
    IF \A k \in 1..Len(s) : s[k] \in { "0", "_" } THEN 0
    ELSE IF s[Len(s)] = "_" THEN DigitsValue(SubSeq(s, 1, Len(s) - 1))
    ELSE DigitsValue(SubSeq(s, 1, Len(s) - 1)) * 10 + DigitValue(s[Len(s)])

\* int(s)
ParseInt(s) ==
    IF Strip(s)[1] = "-" THEN 0 - DigitsValue(Unsigned(s)) ELSE DigitsValue(Unsigned(s))

\* what the third argument can be: an integer or something int() rejects
RateArgs == { IntToStr(n) : n \in RateValues } \cup
    { << "a", "b", "c" >>, << "1", ".", "5" >>, << >>, << "-" >>, << "1", "_" >>,
      << " ", "2" >>, << "+", "1" >>, << "0", "_", "1" >>,
      << "2", "\r" >>, << "-", "1", "\r" >>, << "\f", "2" >>, << "U+000B", "2" >>,
      << "2", "U+00A0" >>, << "2", "\r", "\n" >>, << "1", " ", "2" >>, << "\r" >>,
      << "U+001C", "2" >>, << "2", "U+001F" >>, << "0", "0", "2" >>,
      [k \in 1..MaxStrDigits |-> "0"], [k \in 1..(MaxStrDigits + 1) |-> "0"] }

ArgvInputs ==
    { << "script" >>, << "script", "token" >> } \cup
    { << "script", "token", a >> : a \in RateArgs }

\* the delay used when no rate limit is given: 1.0, one second
DefaultRateLimit == 1

\* __main__: int(sys.argv[2]) if len(sys.argv) >= 3 else 1.0
RateLimitSeconds(argv) == IF Len(argv) >= 3 THEN ParseInt(argv[3]) ELSE DefaultRateLimit

UsageLine ==
    Line("Usage: python backup_github_repos.py <GitHub Personal Access Token> [rate_limit_seconds]",
         "", "", 0)

(***************************************************************************)
(* Init: the process has started and GithubBackup is not constructed yet;  *)
(* rate_limit_seconds holds the default of __init__ until it is.           *)
(***************************************************************************)
Init ==
    /\ pc = "main"
    /\ rate_limit_seconds = 0
    /\ fs \in InitialFilesystems
    /\ fs0 = fs
    /\ remote = << >>
    /\ repos = << >>
    /\ printed = << >>
    /\ confirm = << >>
    /\ i = 0
    /\ calls = << >>
    /\ logs = << >>
    /\ mkdirs = << >>
    /\ sleeps = << >>
    /\ exitCode = -1
    /\ listing = "pending"
    /\ syncfs = << >>

(***************************************************************************)
(* __main__                                                                *)
(***************************************************************************)
\* len(sys.argv) < 2: the usage message and exit status 1
MainUsage ==
    /\ pc = "main"
    /\ \E argv \in ArgvInputs : Len(argv) < 2
    /\ printed' = Append(printed, UsageLine)
    /\ pc' = "usage"
    /\ exitCode' = 1
    /\ UNCHANGED << rate_limit_seconds, fs, fs0, remote, repos, confirm, i, calls, logs,
                    mkdirs, sleeps, listing, syncfs >>

\* int(sys.argv[2]) raises ValueError, which nothing catches
MainBadRateLimit ==
    /\ pc = "main"
    /\ \E argv \in ArgvInputs : Len(argv) >= 3 /\ ~IsIntLiteral(argv[3])
    /\ pc' = "crashed"
    /\ exitCode' = 1
    /\ UNCHANGED << rate_limit_seconds, fs, fs0, remote, repos, printed, confirm, i,
                    calls, logs, mkdirs, sleeps, listing, syncfs >>

\* backup = GithubBackup(token, rate_limit_seconds)
MainConstruct ==
    /\ pc = "main"
    /\ \E argv \in { a \in ArgvInputs : Len(a) >= 2 /\ (Len(a) >= 3 => IsIntLiteral(a[3])) } :
        rate_limit_seconds' = RateLimitSeconds(argv)
    /\ pc' = "start"
    /\ UNCHANGED << fs, fs0, remote, repos, printed, confirm, i, calls, logs, mkdirs,
                    sleeps, exitCode, listing, syncfs >>

(***************************************************************************)
(* get_repositories.  A RequestException is logged and the process exits   *)
(* with status 1.  For any other exception the second except clause        *)
(* evaluates Github.GithubException, an attribute the class does not have: *)
(* the AttributeError is not caught and the interpreter exits with 1.      *)
(***************************************************************************)
GetRepositoriesOk ==
    /\ pc = "start"
    /\ \E r \in RemoteLists :
        /\ remote' = r
        /\ repos' = SortedByUpdatedDesc(r)
    /\ pc' = "display"
    /\ listing' = "ok"
    /\ UNCHANGED << rate_limit_seconds, fs, fs0, printed, confirm, i, calls, logs,
                    mkdirs, sleeps, exitCode,
                    syncfs >>

\* the network error is logged and the run goes on with an empty listing
GetRepositoriesNetworkErrorSwallowed ==
    /\ pc = "start"
    /\ logs' = Append(logs, Log("error", "Network error", 0))
    /\ pc' = "display"
    /\ listing' = "network"
    /\ UNCHANGED << rate_limit_seconds, fs, fs0, remote, repos, printed, confirm, i,
                    calls, mkdirs, sleeps, exitCode, syncfs >>

GetRepositoriesNetworkError ==
    /\ pc = "start"
    /\ logs' = Append(logs, Log("error", "Network error", 0))
    /\ pc' = "fatal"
    /\ exitCode' = 1
    /\ listing' = "network"
    /\ UNCHANGED << rate_limit_seconds, fs, fs0, remote, repos, printed, confirm, i,
                    calls, mkdirs, sleeps,
                    syncfs >>

GetRepositoriesApiError ==
    /\ pc = "start"
    /\ pc' = "crashed"
    /\ exitCode' = 1
    /\ listing' = "api"
    /\ UNCHANGED << rate_limit_seconds, fs, fs0, remote, repos, printed, confirm, i,
                    calls, logs, mkdirs, sleeps,
                    syncfs >>

(***************************************************************************)
(* display_repositories                                                    *)
(***************************************************************************)
DisplayRepositories ==
    /\ pc = "display"
    /\ printed' = printed \o DisplayLines(repos)
    /\ pc' = "confirm"
    /\ UNCHANGED << rate_limit_seconds, fs, fs0, remote, repos, confirm, i, calls,
                    logs, mkdirs, sleeps, exitCode,
                    listing, syncfs >>

(***************************************************************************)
(* backup_repositories: the prompt and the decision on the answer          *)
(***************************************************************************)
ConfirmPrompt ==
    /\ pc = "confirm"
    /\ \E c \in ConfirmInputs :
        /\ confirm' = c
        /\ IF Confirmed(c)
           THEN /\ printed' = Append(printed, PromptLine)
                /\ pc' = "loop"
                /\ i' = 1
                /\ exitCode' = exitCode
           ELSE /\ printed' = printed \o << PromptLine, CanceledLine >>
                /\ pc' = "cancelled"
                /\ i' = i
                /\ exitCode' = 0
    /\ UNCHANGED << rate_limit_seconds, fs, fs0, remote, repos, calls, logs, mkdirs,
                    sleeps,
                    listing, syncfs >>

(***************************************************************************)
(* backup_repositories: the for loop                                       *)
(***************************************************************************)
\* the loop ends one descriptor early
LoopDoneEarly ==
    /\ pc = "loop"
    /\ i >= Len(repos)
    /\ pc' = "done"
    /\ exitCode' = 0
    /\ UNCHANGED << rate_limit_seconds, fs, fs0, remote, repos, printed, confirm, i,
                    calls, logs, mkdirs, sleeps, listing, syncfs >>

LoopDone ==
    /\ pc = "loop"
    /\ i > Len(repos)
    /\ pc' = "done"
    /\ exitCode' = 0
    /\ UNCHANGED << rate_limit_seconds, fs, fs0, remote, repos, printed, confirm, i,
                    calls, logs, mkdirs, sleeps,
                    listing, syncfs >>

\* os.makedirs(backup_dir, exist_ok=True)
Makedirs ==
    /\ pc = "loop"
    /\ i <= Len(repos)
    /\ fs' = fs \cup { << BackupDir(Cur) >> }
    /\ mkdirs' = Append(mkdirs, [ pos |-> i, dir |-> << BackupDir(Cur) >> ])
    /\ pc' = "sync"
    /\ UNCHANGED << rate_limit_seconds, fs0, remote, repos, printed, confirm, i, calls,
                    logs, sleeps, exitCode,
                    listing, syncfs >>

(***************************************************************************)
(* clone_or_update_repository                                              *)
(***************************************************************************)
\* if os.path.exists(target_dir)
SyncEnter ==
    /\ pc = "sync"
    /\ IF PathExists(fs, TargetDir(Cur))
       THEN /\ logs' = Append(logs, Log("info", "Updating", i))
            /\ pc' = "fetch"
       ELSE /\ logs' = Append(logs, Log("info", "Cloning", i))
            /\ pc' = "clone"
    /\ syncfs' = Append(syncfs, fs)
    /\ UNCHANGED << rate_limit_seconds, fs, fs0, remote, repos, printed, confirm, i,
                    calls, mkdirs, sleeps, exitCode,
                    listing >>

\* the fetch run without check=True: a non-zero exit goes on to the merge
FetchIgnoringExit ==
    /\ pc = "fetch"
    /\ \E res \in RunOutcomes :
        /\ calls' = Append(calls, Call("fetch", TargetDir(Cur), << >>, i, res))
        /\ IF res = "oserror"
           THEN pc' = "crashed" /\ exitCode' = 1
           ELSE pc' = "merge" /\ UNCHANGED exitCode
    /\ UNCHANGED << rate_limit_seconds, fs, fs0, remote, repos, printed, confirm, i,
                    logs, mkdirs, sleeps, listing, syncfs >>

\* git -C target_dir fetch --all --prune
Fetch ==
    /\ pc = "fetch"
    /\ \E res \in RunOutcomes :
        /\ calls' = Append(calls, Call("fetch", TargetDir(Cur), << >>, i, res))
        /\ CASE res = "zero" ->
                  /\ pc' = "merge"
                  /\ UNCHANGED << logs, exitCode >>
             [] res = "nonzero" ->
                  /\ logs' = Append(logs, Log("error", "Failed to update", i))
                  /\ pc' = "rate"
                  /\ UNCHANGED exitCode
             [] res = "oserror" ->
                  /\ pc' = "crashed"
                  /\ exitCode' = 1
                  /\ UNCHANGED logs
    /\ UNCHANGED << rate_limit_seconds, fs, fs0, remote, repos, printed, confirm, i,
                    mkdirs, sleeps,
                    listing, syncfs >>

\* git -C target_dir merge
Merge ==
    /\ pc = "merge"
    /\ \E res \in RunOutcomes :
        /\ calls' = Append(calls, Call("merge", TargetDir(Cur), << >>, i, res))
        /\ CASE res = "zero" ->
                  /\ logs' = Append(logs, Log("info", "Successfully updated", i))
                  /\ pc' = "rate"
                  /\ UNCHANGED exitCode
             [] res = "nonzero" ->
                  /\ logs' = Append(logs, Log("error", "Failed to update", i))
                  /\ pc' = "rate"
                  /\ UNCHANGED exitCode
             [] res = "oserror" ->
                  /\ pc' = "crashed"
                  /\ exitCode' = 1
                  /\ UNCHANGED logs
    /\ UNCHANGED << rate_limit_seconds, fs, fs0, remote, repos, printed, confirm, i,
                    mkdirs, sleeps,
                    listing, syncfs >>

\* git lfs clone --recursive -c submodule.recurse=true repo_url target_dir
\* A clone that exits with zero leaves target_dir; one that fails may leave it.
\* the except clause of the clone returns instead of falling through
AfterCloneReturnOnFailure(res) ==
    IF res = "oserror" THEN "crashed" ELSE IF res = "nonzero" THEN "rate" ELSE "verify"

\* where control goes after the clone's try statement: the except clause
\* catches CalledProcessError only, and falls through to verify_repository
AfterClone(res) == IF res = "oserror" THEN "crashed" ELSE "verify"

Clone ==
    /\ pc = "clone"
    /\ \E res \in RunOutcomes :
        /\ calls' = Append(calls, Call("clone", TargetDir(Cur), RepoUrl(Cur), i, res))
        /\ pc' = AfterClone(res)
        /\ CASE res = "zero" ->
                  /\ fs' = fs \cup { TargetDir(Cur) }
                  /\ logs' = Append(logs, Log("info", "Successfully cloned", i))
                  /\ UNCHANGED exitCode
             [] res = "nonzero" ->
                  /\ fs' \in { fs, fs \cup { TargetDir(Cur) } }
                  /\ logs' = Append(logs, Log("error", "Failed to clone", i))
                  /\ UNCHANGED exitCode
             [] res = "oserror" ->
                  /\ exitCode' = 1
                  /\ UNCHANGED << fs, logs >>
    /\ UNCHANGED << rate_limit_seconds, fs0, remote, repos, printed, confirm, i,
                    mkdirs, sleeps,
                    listing, syncfs >>

(***************************************************************************)
(* verify_repository, called at the end of clone_or_update_repository.     *)
(* git -C target_dir fsck exits with non-zero when target_dir is missing.  *)
(***************************************************************************)
VerifyOutcomes(files, target_dir) ==
    IF target_dir \in files THEN RunOutcomes ELSE RunOutcomes \ { "zero" }

VerifyRepository ==
    /\ pc = "verify"
    /\ \E res \in VerifyOutcomes(fs, TargetDir(Cur)) :
        /\ calls' = Append(calls, Call("fsck", TargetDir(Cur), << >>, i, res))
        /\ CASE res = "zero" ->
                  /\ logs' = Append(logs, Log("info", "Backup verification successful", i))
                  /\ pc' = "rate"
                  /\ UNCHANGED exitCode
             [] res = "nonzero" ->
                  /\ logs' = Append(logs, Log("error", "Backup verification failed", i))
                  /\ pc' = "rate"
                  /\ UNCHANGED exitCode
             [] res = "oserror" ->
                  /\ pc' = "crashed"
                  /\ exitCode' = 1
                  /\ UNCHANGED logs
    /\ UNCHANGED << rate_limit_seconds, fs, fs0, remote, repos, printed, confirm, i,
                    mkdirs, sleeps,
                    listing, syncfs >>

(***************************************************************************)
(* backup_repositories: the delay after each repository                    *)
(***************************************************************************)
RateLimit ==
    /\ pc = "rate"
    /\ IF ShouldSleep(rate_limit_seconds)
       THEN sleeps' = Append(sleeps, [ pos |-> i, secs |-> rate_limit_seconds ])
       ELSE sleeps' = sleeps
    /\ i' = i + 1
    /\ pc' = "loop"
    /\ UNCHANGED << rate_limit_seconds, fs, fs0, remote, repos, printed, confirm, calls,
                    logs, mkdirs, exitCode,
                    listing, syncfs >>

Next ==
    \/ MainUsage
    \/ MainBadRateLimit
    \/ MainConstruct
    \/ GetRepositoriesOk
    \/ GetRepositoriesNetworkError
    \/ GetRepositoriesApiError
    \/ DisplayRepositories
    \/ ConfirmPrompt
    \/ LoopDone
    \/ Makedirs
    \/ SyncEnter
    \/ Fetch
    \/ Merge
    \/ Clone
    \/ VerifyRepository
    \/ RateLimit

Spec == Init /\ [][Next]_vars

(***************************************************************************)
(* Vocabulary of the properties.                                           *)
(***************************************************************************)
\* the positions whose clone_or_update_repository call has begun
Synced == 1..Len(syncfs)

\* the call for position p has returned to the loop
SyncReturned(p) == p < i \/ (p = i /\ pc = "rate")

\* the call for position p has returned or has raised
SyncOver(p) == p < i \/ (p = i /\ pc \in { "rate", "crashed" })

\* the indices in calls of the invocations of op for position p
CallsAt(p, op) == { k \in 1..Len(calls) : calls[k].pos = p /\ calls[k].op = op }

\* the target directory of position p was on disk when its sync began
ExistedAtSync(p) == << BackupDir(repos[p]), repos[p].name >> \in syncfs[p]

\* the run was aborted by the k-th invocation
AbortedBy(k) == pc = "crashed" /\ k = Len(calls)

(***************************************************************************)
(* C1: in a confirmed run, every descriptor whose sync has returned has    *)
(* had verify invoked on its target directory, after the sync's own        *)
(* invocations, on the clone path and on the update path alike.            *)
(* The update path returns before verify_repository is reached.            *)
(***************************************************************************)
C1_VerifyAfterEverySync ==
    \A p \in Synced :
        SyncReturned(p) =>
            \E k \in CallsAt(p, "fsck") :
                /\ calls[k].dir = << BackupDir(repos[p]), repos[p].name >>
                /\ \A j \in 1..Len(calls) : (calls[j].pos = p /\ j # k) => j < k

(***************************************************************************)
(* C3: when the answer to the prompt is not "yes" in any letter case, the  *)
(* run ends cancelled, the filesystem is as it was, and nothing was        *)
(* cloned, fetched, merged, verified, created or slept on.                 *)
(***************************************************************************)
YesVariants ==
    { << a, b, c >> : a \in { "y", "Y" }, b \in { "e", "E" }, c \in { "s", "S" } }

Prompted == \E k \in 1..Len(printed) : printed[k] = PromptLine

C3_DeclineHasNoEffect ==
    (Prompted /\ confirm \notin YesVariants) =>
        /\ pc = "cancelled"
        /\ exitCode = 0
        /\ printed[Len(printed)] = CanceledLine
        /\ fs = fs0
        /\ calls = << >>
        /\ mkdirs = << >>
        /\ sleeps = << >>
        /\ syncfs = << >>

C3_Witness ==
    /\ pc = "cancelled"
    /\ confirm = << "N", "o", " ", "t", "h", "a", "n", "k", "s" >>
    /\ Len(repos) = 2
    /\ fs0 # {}

(***************************************************************************)
(* C4: a descriptor whose target directory is absent when its sync begins  *)
(* gets exactly one clone invocation, on that directory, and no fetch or   *)
(* merge, whatever the clone's outcome.                                    *)
(***************************************************************************)
C4_AbsentTargetClonesOnce ==
    \A p \in Synced :
        ~ExistedAtSync(p) =>
            /\ CallsAt(p, "fetch") = {}
            /\ CallsAt(p, "merge") = {}
            /\ Cardinality(CallsAt(p, "clone")) <= 1
            /\ \A k \in CallsAt(p, "clone") :
                /\ calls[k].dir = << BackupDir(repos[p]), repos[p].name >>
                /\ \A j \in 1..Len(calls) : calls[j].pos = p => k <= j
            /\ SyncOver(p) => Cardinality(CallsAt(p, "clone")) = 1

C4_Witness ==
    \E p \in Synced :
        /\ ~ExistedAtSync(p)
        /\ SyncReturned(p)
        /\ \E k \in CallsAt(p, "clone") : calls[k].res = "nonzero"
        /\ \E q \in Synced : q < p /\ ~ExistedAtSync(q)
                                /\ \E k \in CallsAt(q, "clone") : calls[k].res = "zero"

(***************************************************************************)
(* C5 as stated: a descriptor whose target directory exists when its sync  *)
(* begins gets a fetch and a merge, and no clone.                          *)
(***************************************************************************)
C5_ExistingTargetFetchesAndMerges ==
    \A p \in Synced :
        (ExistedAtSync(p) /\ SyncReturned(p)) =>
            /\ Cardinality(CallsAt(p, "fetch")) = 1
            /\ Cardinality(CallsAt(p, "merge")) = 1
            /\ CallsAt(p, "clone") = {}

(***************************************************************************)
(* C5 amended: a descriptor whose target directory exists when its sync    *)
(* begins gets exactly one fetch on that directory, gets one merge on it   *)
(* after the fetch exactly when the fetch exited with zero, and never a    *)
(* clone.                                                                  *)
(***************************************************************************)
C5_ExistingTargetUpdates ==
    \A p \in Synced :
        ExistedAtSync(p) =>
            /\ CallsAt(p, "clone") = {}
            /\ Cardinality(CallsAt(p, "fetch")) <= 1
            /\ Cardinality(CallsAt(p, "merge")) <= 1
            /\ \A k \in CallsAt(p, "fetch") \cup CallsAt(p, "merge") :
                calls[k].dir = << BackupDir(repos[p]), repos[p].name >>
            /\ \A m \in CallsAt(p, "merge") :
                \E f \in CallsAt(p, "fetch") : f < m /\ calls[f].res = "zero"
            /\ SyncOver(p) =>
                /\ Cardinality(CallsAt(p, "fetch")) = 1
                /\ \A f \in CallsAt(p, "fetch") :
                    calls[f].res = "zero" => CallsAt(p, "merge") # {}

C5_Witness ==
    /\ Len(syncfs) = 2
    /\ ExistedAtSync(1) /\ ExistedAtSync(2)
    /\ SyncReturned(2)
    /\ \E f \in CallsAt(1, "fetch") : calls[f].res = "nonzero"
    /\ CallsAt(1, "merge") = {}
    /\ \E f \in CallsAt(2, "fetch") : calls[f].res = "zero"
    /\ CallsAt(2, "merge") # {}

(***************************************************************************)
(* C2: a per-repository failure (a clone or update step exiting non-zero,  *)
(* a verification exiting non-zero or failing to be invoked) at position N *)
(* does not abort the run, and a finished run has processed every position *)
(* after N.  An OSError raised by the fsck invocation is caught nowhere.   *)
(***************************************************************************)
Failure(call) == call.res = "nonzero" \/ (call.op = "fsck" /\ call.res = "oserror")

C2_FailureNeverAborts ==
    \A k \in 1..Len(calls) :
        Failure(calls[k]) =>
            /\ ~(AbortedBy(k) /\ \E q \in (calls[k].pos + 1)..Len(repos) : q \notin Synced)
            /\ pc = "done" => \A q \in (calls[k].pos + 1)..Len(repos) : q \in Synced

(***************************************************************************)
(* C6: verify never raises past its boundary: every fsck invocation ends   *)
(* in a verdict, logged as a success on a zero exit and as a failure on a  *)
(* non-zero exit or an invocation error, and the run goes on.              *)
(***************************************************************************)
LoggedAt(p, msg) == \E k \in 1..Len(logs) : logs[k].pos = p /\ logs[k].msg = msg

C6_VerifyNeverRaises ==
    \A k \in 1..Len(calls) :
        calls[k].op = "fsck" =>
            /\ ~AbortedBy(k)
            /\ calls[k].res = "zero" <=>
                   LoggedAt(calls[k].pos, "Backup verification successful")
            /\ calls[k].res # "zero" <=>
                   LoggedAt(calls[k].pos, "Backup verification failed")

(***************************************************************************)
(* C7: when the listing fails with a network or an API error, the process  *)
(* ends with a non-zero exit status and nothing else has run: nothing      *)
(* displayed, no prompt, no directory created, no git invocation.          *)
(***************************************************************************)
C7_ListingFailureIsFatal ==
    listing \in { "network", "api" } =>
        /\ pc \in { "fatal", "crashed" }
        /\ exitCode > 0
        /\ printed = << >>
        /\ repos = << >>
        /\ fs = fs0
        /\ calls = << >>
        /\ mkdirs = << >>
        /\ sleeps = << >>
        /\ syncfs = << >>

C7_Witness ==
    /\ listing = "network"
    /\ exitCode = 1
    /\ fs0 # {}
    /\ \E k \in 1..Len(logs) : logs[k].msg = "Network error"

(***************************************************************************)
(* C8: when the clone for a descriptor exits non-zero, the sync does not   *)
(* raise and the next invocation is verify on the same target directory.   *)
(***************************************************************************)
C8_VerifyAfterFailedClone ==
    \A k \in 1..Len(calls) :
        (calls[k].op = "clone" /\ calls[k].res = "nonzero") =>
            /\ ~AbortedBy(k)
            /\ k = Len(calls) => (pc = "verify" /\ i = calls[k].pos)
            /\ k < Len(calls) =>
                /\ calls[k + 1].op = "fsck"
                /\ calls[k + 1].dir = calls[k].dir
                /\ calls[k + 1].pos = calls[k].pos

C8_Witness ==
    \E k \in 1..(Len(calls) - 1) :
        /\ calls[k].op = "clone"
        /\ calls[k].res = "nonzero"
        /\ calls[k].dir \notin fs
        /\ calls[k + 1].op = "fsck"
        /\ pc = "rate"

(***************************************************************************)
(* C9: the listing, and the displayed order, is a permutation of what the  *)
(* remote service returned, in descending order of updated_at, with equal  *)
(* updated_at kept in the order the remote service returned them.          *)
(***************************************************************************)
IndexIn(seq, id) == CHOOSE k \in 1..Len(seq) : seq[k].id = id

C9_ListingSortedStable ==
    listing = "ok" =>
        /\ Len(repos) = Len(remote)
        /\ \A k \in 1..Len(remote) : \E j \in 1..Len(repos) : repos[j] = remote[k]
        /\ \A a, b \in 1..Len(repos) :
            a < b =>
                /\ repos[a].updated_at >= repos[b].updated_at
                /\ repos[a].updated_at = repos[b].updated_at =>
                       IndexIn(remote, repos[a].id) < IndexIn(remote, repos[b].id)
        /\ printed # << >> =>
            /\ Len(printed) > Len(repos)
            /\ \A k \in 1..Len(repos) :
                /\ printed[k + 1].name = repos[k].name
                /\ printed[k + 1].updated_at = repos[k].updated_at
                /\ printed[k + 1].repo_type = (IF repos[k].private THEN "Private" ELSE "Public")

C9_Witness ==
    /\ listing = "ok"
    /\ Len(remote) = 2
    /\ remote[1].id = 3 /\ remote[2].id = 1
    /\ repos = remote
    /\ printed # << >>

(***************************************************************************)
(* C10: with a rate limit of zero or less nothing is slept; with a rate    *)
(* limit S > 0 every sleep lasts S and the time slept is at least          *)
(* (K - 1) * S for the K repositories processed so far, so at least        *)
(* (K - 1) * S for the whole listing once the run is done.                 *)
(***************************************************************************)
RECURSIVE TotalSlept(_)
TotalSlept(sl) == IF sl = << >> THEN 0 ELSE sl[1].secs + TotalSlept(Tail(sl))

C10_DelayBetweenRepositories ==
    /\ rate_limit_seconds <= 0 => sleeps = << >>
    /\ rate_limit_seconds > 0 =>
        /\ \A k \in 1..Len(sleeps) : sleeps[k].secs = rate_limit_seconds
        /\ TotalSlept(sleeps) >= (Len(mkdirs) - 1) * rate_limit_seconds
        /\ pc = "done" => TotalSlept(sleeps) >= (Len(repos) - 1) * rate_limit_seconds

C10_Witness ==
    /\ pc = "done"
    /\ Len(repos) = 2
    /\ rate_limit_seconds = 2
    /\ TotalSlept(sleeps) = 4

(***************************************************************************)
(* C11: the run moves only along Start -> Listing -> AwaitingConfirmation ->*)
(* {Cancelled | Running} -> Done (a process that dies on an error is in    *)
(* the terminal state Error); Running is entered exactly when the listing  *)
(* succeeded, the whole list was displayed and the answer is "yes" in any  *)
(* letter case; no directory is created and nothing is synced or verified  *)
(* before Running.                                                         *)
(***************************************************************************)
Phase(p) ==
    CASE p = "main" -> "Start"
      [] p = "start" -> "Listing"
      [] p \in { "display", "confirm" } -> "AwaitingConfirmation"
      [] p = "cancelled" -> "Cancelled"
      [] p = "done" -> "Done"
      [] p \in { "usage", "fatal", "crashed" } -> "Error"
      [] OTHER -> "Running"

PhaseTransitions ==
    { << "Start", "Listing" >>, << "Start", "Error" >>,
      << "Listing", "AwaitingConfirmation" >>, << "Listing", "Error" >>,
      << "AwaitingConfirmation", "Cancelled" >>, << "AwaitingConfirmation", "Running" >>,
      << "Running", "Done" >>, << "Running", "Error" >> }

\* the run is in Running or has been
HasRun == Phase(pc) \in { "Running", "Done" } \/ (pc = "crashed" /\ listing = "ok")

FullListDisplayed ==
    /\ Len(printed) > Len(repos)
    /\ printed[1].kind = "Repositories:"
    /\ \A k \in 1..Len(repos) :
        printed[k + 1].kind = "repo" /\ printed[k + 1].name = repos[k].name

NoBackupEffects == fs = fs0 /\ calls = << >> /\ mkdirs = << >> /\ syncfs = << >>

C11_StateMachine ==
    [][ /\ Phase(pc') # Phase(pc) => << Phase(pc), Phase(pc') >> \in PhaseTransitions
        /\ HasRun' <=> (listing' = "ok" /\ FullListDisplayed' /\ Prompted'
                            /\ confirm' \in YesVariants)
        /\ ~HasRun' => NoBackupEffects' ]_vars

C11_Witness ==
    /\ pc = "done"
    /\ confirm = << "Y", "E", "S" >>
    /\ Len(repos) = 2
    /\ Len(calls) > 2

(***************************************************************************)
(* C12: processing is strictly sequential in listing order.  Each step     *)
(* makes at most one invocation; every git invocation is for the position  *)
(* whose category directory was created last, on that position's target    *)
(* directory; the directory creation for position p + 1 comes after every  *)
(* invocation for position p, and none for p follows it.                   *)
(***************************************************************************)
\* the category directory of a descriptor, from its visibility
CategoryDir(r) == IF r.private THEN "private_repos" ELSE "public_repos"

C12_StrictlySequential ==
    [][ /\ calls' = calls \/ mkdirs' = mkdirs
        /\ calls' # calls =>
            /\ Len(calls') = Len(calls) + 1
            /\ SubSeq(calls', 1, Len(calls)) = calls
            /\ calls'[Len(calls')].pos = Len(mkdirs)
            /\ calls'[Len(calls')].dir =
                   << CategoryDir(repos[Len(mkdirs)]), repos[Len(mkdirs)].name >>
            /\ \A k \in 1..Len(calls) : calls[k].pos <= Len(mkdirs)
        /\ mkdirs' # mkdirs =>
            /\ Len(mkdirs') = Len(mkdirs) + 1
            /\ SubSeq(mkdirs', 1, Len(mkdirs)) = mkdirs
            /\ mkdirs'[Len(mkdirs')].pos = Len(mkdirs) + 1
            /\ mkdirs'[Len(mkdirs')].dir = << CategoryDir(repos[Len(mkdirs) + 1]) >>
            /\ \A k \in 1..Len(calls) : calls[k].pos <= Len(mkdirs)
            /\ Len(mkdirs) > 0 => pc \notin { "sync", "fetch", "merge", "clone", "verify" }
      ]_vars

C12_Witness ==
    /\ pc = "done"
    /\ Len(mkdirs) = 2
    /\ repos[1].private # repos[2].private
    /\ CallsAt(1, "clone") # {} /\ CallsAt(1, "fsck") # {}
    /\ CallsAt(2, "fetch") # {} /\ CallsAt(2, "merge") # {}

(***************************************************************************)
(* C13: every invocation for a descriptor targets <category-dir>/<name>,   *)
(* with "private_repos" for a private and "public_repos" for a public      *)
(* repository; the category directory exists when the descriptor's sync    *)
(* begins, and creating it never fails, whether or not it was there.       *)
(***************************************************************************)
C13_TargetUnderCategory ==
    /\ \A k \in 1..Len(calls) :
        calls[k].dir = << CategoryDir(repos[calls[k].pos]), repos[calls[k].pos].name >>
    /\ \A k \in 1..Len(mkdirs) : mkdirs[k].dir = << CategoryDir(repos[k]) >>
    /\ \A p \in Synced : << CategoryDir(repos[p]) >> \in syncfs[p]
    /\ Len(syncfs) = Len(mkdirs) \/ (Len(syncfs) + 1 = Len(mkdirs) /\ pc = "sync")

C13_Witness ==
    /\ Len(syncfs) = 2
    /\ mkdirs[1].dir = mkdirs[2].dir
    /\ mkdirs[1].dir \in fs0
    /\ repos[1].name # repos[2].name
    /\ CallsAt(2, "clone") # {}

(***************************************************************************)
(* C14: the URL given to the clone is the descriptor's SSH URL when that   *)
(* string contains "ssh://", and its HTTPS clone URL otherwise.            *)
(***************************************************************************)
HasSshScheme(s) ==
    \E k \in 1..(Len(s) - 5) : SubSeq(s, k, k + 5) = << "s", "s", "h", ":", "/", "/" >>

C14_CloneUrl ==
    \A k \in 1..Len(calls) :
        IF calls[k].op = "clone"
        THEN calls[k].url = (IF HasSshScheme(repos[calls[k].pos].ssh_url)
                             THEN repos[calls[k].pos].ssh_url
                             ELSE repos[calls[k].pos].clone_url)
        ELSE calls[k].url = << >>

C14_Witness ==
    \E a, b \in 1..Len(calls) :
        /\ calls[a].op = "clone" /\ calls[b].op = "clone"
        /\ calls[a].url = repos[calls[a].pos].ssh_url
        /\ calls[b].url = repos[calls[b].pos].clone_url

(***************************************************************************)
(* C15: the sync of a descriptor touches only its own target directory:    *)
(* each of its clone, fetch and merge invocations is on that directory,    *)
(* and it is the target directory of no other descriptor of the listing    *)
(* nor a category directory.  Two descriptors of the same name and         *)
(* visibility share one target directory (see C18).                        *)
(***************************************************************************)
OwnTarget(p) == << CategoryDir(repos[p]), repos[p].name >>

C15_SyncTouchesOnlyOwnTarget ==
    \A k \in 1..Len(calls) :
        calls[k].op \in { "clone", "fetch", "merge" } =>
            /\ calls[k].dir = OwnTarget(calls[k].pos)
            /\ \A q \in 1..Len(repos) : q # calls[k].pos => calls[k].dir # OwnTarget(q)
            /\ calls[k].dir \notin { << "private_repos" >>, << "public_repos" >> }

(***************************************************************************)
(* C16: every suspension lies between two descriptors: it follows the      *)
(* processing of one descriptor and another descriptor is still to be      *)
(* processed, so none follows the last descriptor.  The loop sleeps after  *)
(* every descriptor, the last one included.                                *)
(***************************************************************************)
C16_SleepOnlyBetweenRepositories ==
    \A k \in 1..Len(sleeps) :
        /\ sleeps[k].pos \in Synced
        /\ sleeps[k].pos < Len(repos)

(***************************************************************************)
(* C17: on the update path a merge is invoked only after a fetch that      *)
(* exited with zero.  When the fetch or the merge exits non-zero, nothing  *)
(* more is invoked for the descriptor (no merge after a failed fetch, no   *)
(* clone, no rollback), exactly one update failure and no success is       *)
(* logged for it, and the sync returns to the loop.                        *)
(***************************************************************************)
LogsAt(p, msg) == { k \in 1..Len(logs) : logs[k].pos = p /\ logs[k].msg = msg }

C17_UpdateFailure ==
    \A p \in Synced :
        ExistedAtSync(p) =>
            /\ \A m \in CallsAt(p, "merge") :
                \E f \in CallsAt(p, "fetch") : f < m /\ calls[f].res = "zero"
            /\ Cardinality(LogsAt(p, "Failed to update")) <= 1
            /\ \A k \in CallsAt(p, "fetch") \cup CallsAt(p, "merge") :
                calls[k].res = "nonzero" =>
                    /\ SyncReturned(p)
                    /\ \A j \in 1..Len(calls) : calls[j].pos = p => j <= k
                    /\ calls[k].op = "fetch" => CallsAt(p, "merge") = {}
                    /\ CallsAt(p, "clone") = {}
                    /\ Cardinality(LogsAt(p, "Failed to update")) = 1
                    /\ LogsAt(p, "Successfully updated") = {}

C17_Witness ==
    /\ Len(syncfs) = 2
    /\ ExistedAtSync(1) /\ ExistedAtSync(2)
    /\ SyncReturned(2)
    /\ \E f \in CallsAt(1, "fetch") : calls[f].res = "nonzero"
    /\ \E m \in CallsAt(2, "merge") : calls[m].res = "nonzero"

(***************************************************************************)
(* C18: within one run the sync of one descriptor does not change the      *)
(* clone-or-update decision of another: every descriptor whose target      *)
(* directory was absent when the run started finds it absent when its own  *)
(* sync begins, and is cloned from its own URL.  Two repositories of the   *)
(* same name and visibility resolve to one target directory.               *)
(***************************************************************************)
C18_DecisionIndependent ==
    \A p \in Synced :
        OwnTarget(p) \notin fs0 =>
            /\ OwnTarget(p) \notin syncfs[p]
            /\ CallsAt(p, "fetch") = {}
            /\ SyncOver(p) => \E k \in CallsAt(p, "clone") :
                                  calls[k].url \in { repos[p].ssh_url, repos[p].clone_url }

(***************************************************************************)
(* C19: every process ends; a run of backup_repositories in which every    *)
(* external call returned an exit status ends in the fatal listing error, in Cancelled or in Done;   *)
(* and Done is reached only with every descriptor visited exactly once.    *)
(***************************************************************************)
FairSpec == Spec /\ WF_vars(Next)

Ended == pc \in { "usage", "fatal", "crashed", "cancelled", "done" }

\* backup_repositories was called and its listing request has ended
RunStarted == listing # "pending"

NoCallRaised == \A k \in 1..Len(calls) : calls[k].res # "oserror"

FatalListingError == listing \in { "network", "api" } /\ pc \in { "fatal", "crashed" }

VisitsOf(p) == { k \in 1..Len(mkdirs) : mkdirs[k].pos = p }

C19_Terminates ==
    /\ <>Ended
    /\ [](Ended /\ RunStarted /\ NoCallRaised =>
             \/ FatalListingError /\ listing # "ok"
             \/ pc = "cancelled" /\ listing = "ok" /\ ~HasRun
             \/ pc = "done" /\ listing = "ok")
    /\ [](pc = "done" =>
             /\ Len(syncfs) = Len(repos)
             /\ \A p \in 1..Len(repos) : Cardinality(VisitsOf(p)) = 1)

C19_Witness ==
    /\ pc = "done"
    /\ Len(repos) = 2
    /\ NoCallRaised
    /\ \E k \in 1..Len(calls) : calls[k].res = "nonzero"
    /\ Len(syncfs) = 2

====
